---- MODULE Spec2Model ----
(***************************************************************************)
(* The Topology Manager of gonetem (internal/server/topology.go): the      *)
(* lifecycle Load -> Run -> Start/Stop -> Reload -> Close of one project.  *)
(*                                                                         *)
(* The manager's fields are the variables nodes, links, bridges, running,  *)
(* ovsInstance and ids (the IdGenerator's pool).  The request path is one  *)
(* sequential caller whose position is pc; the worker tasks of an          *)
(* errgroup are the entries of tasks, each taking its steps in any order.  *)
(* The collaborators that are not part of the manager (container runtime,  *)
(* kernel netlink, OVS wrapper, identifier generator) answer every call    *)
(* with a nondeterministic success or failure; what they leave behind is   *)
(* the variables created, started and ifaces.                              *)
(*                                                                         *)
(* A Go panic (a nil pointer dereference) ends the process: it is recorded *)
(* in fault and no further step is taken.                                  *)
(***************************************************************************)
EXTENDS Integers, Sequences, FiniteSets, TLC

\* ---------------------------------------------------------------- bounds
\* How many calls to a collaborator fail in one behaviour, at most.
MaxFailures == 2

\* ------------------------------------------------------------ the document
\* A nil INetemNode, a nil *NetemBridge, a nil *ovs.OvsProjectInstance.
NilNode == "nil"
NilBridge == [Name |-> "", HostInterface |-> "", Peers |-> <<>>, isNil |-> TRUE]
Nil == "nil"

\* LinkConfig; a peer "<nodeName>.<ifIndex>" is kept as <<nodeName, ifIndex>>,
\* Loss in tenths of a percent.
LinkConfig(p1, p2, delay, jitter, loss, rate) ==
    [Peer1 |-> p1, Peer2 |-> p2, Delay |-> delay, Jitter |-> jitter,
     Loss |-> loss, Rate |-> rate]

\* BridgeConfig, with the name it is keyed by in NetemTopology.Bridges.
BridgeConfig(name, host, interfaces) ==
    [name |-> name, Host |-> host, Interfaces |-> interfaces]

\* The documents of the end-to-end scenarios.
\* S1, two routers and one link.
TopologyS1 ==
    [Nodes |-> {"r1", "r2"},
     Links |-> <<LinkConfig(<<"r1", 0>>, <<"r2", 0>>, 0, 0, 0, 0)>>,
     Bridges |-> <<>>]

\* S2, the link impaired: delay 50, jitter 5, loss 1.5, rate 1000.
TopologyS2 ==
    [Nodes |-> {"r1", "r2"},
     Links |-> <<LinkConfig(<<"r1", 0>>, <<"r2", 0>>, 50, 5, 15, 1000)>>,
     Bridges |-> <<>>]

\* S3, one host on a host bridge.
TopologyS3 ==
    [Nodes |-> {"h1"},
     Links |-> <<>>,
     Bridges |-> <<BridgeConfig("br0", "eth0", <<<<"h1", 0>>>>)>>]

\* S2 and S3 in one project: r1 is on the link and on the bridge.
TopologyS4 ==
    [Nodes |-> {"r1", "r2"},
     Links |-> <<LinkConfig(<<"r1", 0>>, <<"r2", 0>>, 50, 5, 15, 1000)>>,
     Bridges |-> <<BridgeConfig("br0", "eth0", <<<<"r1", 1>>>>)>>]

\* NetemTopology: the validated documents the model draws from (CheckTopology
\* returned no error).
NetemTopology == {TopologyS1, TopologyS2, TopologyS3, TopologyS4}

VARIABLES
    doc,          \* network.yml, as CheckTopology returns it
    nodes,        \* t.nodes
    ovsInstance,  \* t.ovsInstance
    links,        \* t.links
    bridges,      \* t.bridges
    running,      \* t.running
    ids,          \* t.IdGenerator: the long names holding a short id
    pc,           \* position of the request path
    op,           \* the manager operation the caller invoked last
    arg,          \* the nodeName that Start or Stop was passed ("" for the other operations)
    tasks,        \* the errgroup's tasks: index -> "todo" | "read" | "ok" | "err"
    cursor,       \* loop position of a serial stage
    nodeMessages, \* Run's local nodeMessages
    taskRead,     \* task index -> the nodeMessages value it read before its append
    created,      \* nodes CreateNode built a container for, not yet handed to Close
    started,      \* nodes a Start brought up, not stopped and not yet handed to Close
    ifaces,       \* kernel interfaces that exist
    netns,        \* network-namespace handles: handle -> times opened less times closed
    calls,        \* calls issued by the operation in progress: <<kind, name, index, result>>
    ret,          \* what the last operation returned (NoRet while one is in progress)
    lastRun,      \* how the last Run that was not a no-op ended; what Close made of it
    phase,        \* "new" | "loaded" | "loadFailed" | "closed"
    hist,         \* where the history stands in Load; (Run; Close)^k: "new", "L", "R", "C",
                  \* or "other" once it has left that pattern
    reload,       \* Reload's frame: whether it is active, what it saw and did
    failures,     \* how many collaborator calls have failed so far
    fault         \* "none", or the panic that ended the process

vars == <<doc, nodes, ovsInstance, links, bridges, running, ids, pc, op, arg, tasks,
          cursor, nodeMessages, taskRead, created, started, ifaces, netns,
          calls, ret, lastRun, phase, hist, reload, failures, fault>>

manager == <<nodes, ovsInstance, links, bridges, running, ids>>
world == <<created, started, ifaces>>

\* The namespaces a handle can be on: the root namespace, a node's.
Netns == {"root"} \cup UNION {t.Nodes : t \in NetemTopology}

\* No handle open.
NoHandles == [h \in Netns |-> 0]

NoReload == [active |-> FALSE, wasRunning |-> FALSE, ranRun |-> FALSE]
NoRet == [op |-> "none", err |-> FALSE, msgs |-> <<>>]

\* LoadTopology's struct literal: the state after construction, before Load.
Init ==
    /\ doc \in NetemTopology
    /\ nodes = <<>>
    /\ ovsInstance = Nil
    /\ links = <<>>
    /\ bridges = <<>>
    /\ running = FALSE
    /\ ids = {}
    /\ pc = "idle"
    /\ op = "none"
    /\ arg = ""
    /\ tasks = <<>>
    /\ cursor = <<0, 0>>
    /\ nodeMessages = <<>>
    /\ taskRead = <<>>
    /\ created = {}
    /\ started = {}
    /\ ifaces = {}
    /\ netns = NoHandles
    /\ calls = {}
    /\ ret = NoRet
    /\ lastRun = "none"
    /\ phase = "new"
    /\ hist = "new"
    /\ reload = NoReload
    /\ failures = 0
    /\ fault = "none"

\* ------------------------------------------------------------- helpers
Outcomes == {"ok", "err"}

\* What a call to a collaborator may answer in the current state.
Results == IF failures < MaxFailures THEN Outcomes ELSE {"ok"}

\* Failure points 0..n of a handler of n fallible calls (0: none fails).
FailPoints(n) == IF failures < MaxFailures THEN 0..n ELSE {0}

Spend(failed) == failures' = IF failed THEN failures + 1 ELSE failures

Call(kind, a, b, r) == <<kind, a, b, r>>

\* Variant of Wait: it returns without waiting for the tasks.
WaitReturnsAtOnce == TRUE

\* Variant of Wait: it returns as soon as one task has failed.
FirstErrorOrAllDone ==
    \/ \A i \in DOMAIN tasks : tasks[i] \in {"ok", "err"}
    \/ \E i \in DOMAIN tasks : tasks[i] = "err"

\* errgroup.Group.Wait: every task has returned; the first error, if any.
AllDone == \A i \in DOMAIN tasks : tasks[i] \in {"ok", "err"}
AnyErr == \E i \in DOMAIN tasks : tasks[i] = "err"

\* Variant of GetNode: the first entry of t.nodes, whatever its name.
FirstNode(name) == IF Len(nodes) > 0 THEN nodes[1] ELSE NilNode

\* GetNode: the first entry of t.nodes with that name, or nil.
GetNode(name) ==
    IF \E i \in 1..Len(nodes) : nodes[i] = name THEN name ELSE NilNode

\* GetNode calls GetName on every entry up to the match: a nil entry met on
\* the way is a nil dereference.
GetNodePanics(name) ==
    \E i \in 1..Len(nodes) :
        /\ nodes[i] = NilNode
        /\ \A j \in 1..(i - 1) : nodes[j] # name

\* Kernel interfaces, as the world holds them.  A veth pair lives and dies as
\* one device: <<"link", "", i>> is the pair of link i, <<"leg", b, j>> the
\* pair of leg j of bridge b, <<"br", b, 0>> the bridge device of bridge b.
LinkIf(i) == <<"link", "", i>>
LegIf(b, j) == <<"leg", b, j>>
BridgeIf(b) == <<"br", b, 0>>

\* The veth pairs with an end in node n's namespace: they go with the namespace.
HeldBy(n) ==
    {LinkIf(i) : i \in {k \in 1..Len(doc.Links) :
                            n \in {doc.Links[k].Peer1[1], doc.Links[k].Peer2[1]}}}
    \cup UNION {{LegIf(doc.Bridges[b].name, j) :
                    j \in {x \in 1..Len(doc.Bridges[b].Interfaces) :
                             doc.Bridges[b].Interfaces[x][1] = n}} :
                 b \in 1..Len(doc.Bridges)}

\* The locals of an operation are dead once it returned.
ResetLocals ==
    /\ tasks' = <<>>
    /\ cursor' = <<0, 0>>
    /\ nodeMessages' = <<>>
    /\ taskRead' = <<>>

\* A step of the request path or of a task that dereferences nil: a panic.
Panic(what) ==
    /\ fault' = what
    /\ UNCHANGED <<doc, netns, nodes, ovsInstance, links, bridges, running, ids, pc, op, arg,
                   tasks, cursor, nodeMessages, taskRead, created, started,
                   ifaces, calls, ret, lastRun, phase, hist, reload, failures>>

\* ================================================================= Load
\* Load's return: to the caller, or back into Reload.
LoadReturn(e, rl) ==
    /\ phase' = IF e THEN "loadFailed" ELSE "loaded"
    /\ hist' = IF ~e /\ ~rl.active /\ phase = "new" THEN "L" ELSE "other"
    /\ ResetLocals
    /\ IF rl.active /\ ~e
       THEN pc' = "reload_run" /\ ret' = ret
       ELSE /\ pc' = "idle"
            /\ ret' = [op |-> IF rl.active THEN "Reload" ELSE "Load", err |-> e, msgs |-> <<>>]

\* Load up to the spawn of the node tasks: CheckTopology, NewOvsInstance,
\* t.nodes = make(...), one task per node of the document.
LoadEntry(base, rl) ==
    \E v \in Results, o \in Results :
        /\ v = "err" => o = "ok"
        /\ Spend(v = "err" \/ o = "err")
        /\ calls' = base \cup {Call("CheckTopology", "", 0, v)}
                         \cup (IF v = "ok" THEN {Call("NewOvsInstance", "", 0, o)} ELSE {})
        /\ IF v = "err"
           THEN /\ LoadReturn(TRUE, rl)
                /\ UNCHANGED <<nodes, ovsInstance>>
           ELSE IF o = "err"
           THEN /\ ovsInstance' = Nil
                /\ LoadReturn(TRUE, rl)
                /\ UNCHANGED nodes
           ELSE /\ ovsInstance' = "ovs"
                /\ nodes' = <<>>
                /\ tasks' = [n \in doc.Nodes |-> "todo"]
                /\ pc' = "load_nodes"
                /\ ret' = NoRet
                /\ UNCHANGED <<phase, hist, cursor, nodeMessages, taskRead>>
        /\ UNCHANGED <<doc, netns, links, bridges, ids, world, lastRun, fault>>

\* What CreateNode hands back: a node; or an error with a nil node; or an
\* error with the node object it had begun to build.
CreateNodeOutcomes == {"ok", "errNil", "errNode"}

\* The entry a creation task appends to t.nodes: whatever CreateNode
\* returned, appended before the error is looked at.
AppendedNode(n, c) == IF c = "errNil" THEN NilNode ELSE n

\* Variant of the append: a task that finds an entry in the slice loses its own.
LostAppend(list, node) == IF Len(list) > 0 THEN list ELSE <<node>>

\* mutex.Lock(); t.nodes = append(t.nodes, node); mutex.Unlock(): the read and
\* the write of t.nodes are one step.
LockedAppend(list, node) == Append(list, node)

\* One node-creation task: GetId, CreateNode, the append under the mutex.
LoadNodeTask(n) ==
    /\ fault = "none"
    /\ pc = "load_nodes"
    /\ n \in DOMAIN tasks
    /\ tasks[n] = "todo"
    /\ \E g \in Results, c \in CreateNodeOutcomes :
         /\ c # "ok" => failures < MaxFailures
         /\ g = "err" => c = "ok"
         /\ Spend(g = "err" \/ c # "ok")
         /\ IF g = "err"
           THEN /\ tasks' = [tasks EXCEPT ![n] = "err"]
                /\ calls' = calls \cup {Call("GetId", n, 0, "err")}
                /\ UNCHANGED <<nodes, ids, created>>
           ELSE /\ ids' = ids \cup {n}
                /\ nodes' = LockedAppend(nodes, AppendedNode(n, c))
                /\ created' = IF c = "ok" THEN created \cup {n} ELSE created
                /\ tasks' = [tasks EXCEPT ![n] = IF c = "ok" THEN "ok" ELSE "err"]
                /\ calls' = calls \cup {Call("GetId", n, 0, "ok"),
                                        Call("CreateNode", n, 0, IF c = "ok" THEN "ok" ELSE "err")}
    /\ UNCHANGED <<doc, netns, ovsInstance, links, bridges, running, pc, op, arg, cursor,
                   nodeMessages, taskRead, started, ifaces, ret, lastRun, phase,
                   hist, reload, fault>>

NewNetemLink(lConfig) ==
    [Peer1 |-> [Node |-> GetNode(lConfig.Peer1[1]), IfIndex |-> lConfig.Peer1[2]],
     Peer2 |-> [Node |-> GetNode(lConfig.Peer2[1]), IfIndex |-> lConfig.Peer2[2]],
     Delay |-> lConfig.Delay, Jitter |-> lConfig.Jitter,
     Loss |-> lConfig.Loss, Rate |-> lConfig.Rate]

NewNetemBridge(bConfig) ==
    [Name |-> bConfig.name, HostInterface |-> bConfig.Host,
     Peers |-> [pIdx \in 1..Len(bConfig.Interfaces) |->
                   [Node |-> GetNode(bConfig.Interfaces[pIdx][1]),
                    IfIndex |-> bConfig.Interfaces[pIdx][2]]],
     isNil |-> FALSE]

\* The orders in which a Go map of n entries may be ranged over.
MapOrders(n) == {f \in [1..n -> 1..n] : \A i, j \in 1..n : i # j => f[i] # f[j]}

\* t.bridges after the loop over topology.Bridges: allocated at full length,
\* filled in range order; when GetId fails for the bridge at position failAt
\* (0: for none) Load returns with the remaining slots still nil.
LoadedBridges(order, failAt) ==
    [bIdx \in 1..Len(doc.Bridges) |->
        IF failAt # 0 /\ bIdx >= failAt
        THEN NilBridge
        ELSE NewNetemBridge(doc.Bridges[order[bIdx]])]

\* g.Wait and the rest of Load: links and bridges resolved on the request path.
LoadWait ==
    /\ fault = "none"
    /\ pc = "load_nodes"
    /\ AllDone
    /\ IF AnyErr
       THEN /\ LoadReturn(TRUE, reload)
            /\ UNCHANGED <<links, bridges, ids, calls, failures>>
       ELSE \E order \in MapOrders(Len(doc.Bridges)), failAt \in FailPoints(Len(doc.Bridges)) :
            /\ Spend(failAt # 0)
            /\ links' = [idx \in 1..Len(doc.Links) |-> NewNetemLink(doc.Links[idx])]
            /\ bridges' = LoadedBridges(order, failAt)
            /\ ids' = ids \cup {doc.Bridges[order[bIdx]].name :
                                  bIdx \in {x \in 1..Len(doc.Bridges) : failAt = 0 \/ x < failAt}}
            /\ calls' = calls \cup
                 {Call("GetId", doc.Bridges[order[bIdx]].name, 0,
                       IF bIdx = failAt THEN "err" ELSE "ok") :
                    bIdx \in {x \in 1..Len(doc.Bridges) : failAt = 0 \/ x <= failAt}}
            /\ LoadReturn(failAt # 0, reload)
    /\ UNCHANGED <<doc, netns, nodes, ovsInstance, running, op, arg, world, lastRun, reload, fault>>

\* The caller invokes Load: on a manager that holds nothing (just built, or closed).
Load ==
    /\ fault = "none"
    /\ pc = "idle"
    /\ phase \in {"new", "closed"}
    /\ op' = "Load"
    /\ arg' = ""
    /\ reload' = NoReload
    /\ running' = running
    /\ LoadEntry({}, NoReload)

\* ================================================================== Run
\* Run's return: the caller of Run, or of the Reload that ran it, gets it.
RunReturn(e, msgs, outcome, rl) ==
    /\ pc' = "idle"
    /\ ret' = [op |-> IF rl.active THEN "Reload" ELSE "Run", err |-> e, msgs |-> msgs]
    /\ lastRun' = outcome
    /\ ResetLocals

\* Variant of the guard: Run goes through its stages whatever the flag says.
RunIgnoresFlag(isRunning) == FALSE

\* The guard at the head of Run.
RunAlreadyRunning(isRunning) == isRunning

\* What Run makes of the result of t.ovsInstance.Start(): the result is
\* dropped and the local err, still nil, is what the next line tests.
OvsStartError(o) == FALSE

\* How a call of Start on t.ovsInstance ends.  The method reads the instance
\* it is called on: on the nil pointer Close leaves it either dereferences
\* it, a panic, or returns without having touched it.
OvsStartOn(inst) == IF inst = Nil THEN {"panic", "return"} ELSE {"return"}

\* Run up to the spawn of the node Start tasks.  isRunning is t.running as
\* Run reads it (Reload clears the flag just before it calls Run).
RunEntry(base, rl, isRunning) ==
    /\ hist' = IF ~rl.active /\ hist \in {"L", "C"} THEN "R" ELSE "other"
    /\ IF RunAlreadyRunning(isRunning)
       THEN /\ RunReturn(FALSE, <<>>, lastRun, rl)
            /\ calls' = base
            /\ UNCHANGED <<failures, fault>>
       ELSE \E how \in OvsStartOn(ovsInstance) :
            IF how = "panic"
            THEN /\ fault' = "Run: Start on a nil ovsInstance"
                 /\ calls' = base
                 /\ UNCHANGED <<pc, ret, lastRun, tasks, cursor, nodeMessages, taskRead, failures>>
            ELSE \E o \in Results :
                 /\ Spend(o = "err")
                 /\ calls' = base \cup {Call("ovsStart", "", 0, o)}
                 /\ fault' = fault
                 /\ IF OvsStartError(o)
                    THEN RunReturn(TRUE, <<>>, "failOvs", rl)
                    ELSE /\ tasks' = [i \in 1..Len(nodes) |-> "todo"]
                         /\ pc' = "run_start"
                         /\ ret' = NoRet
                         /\ UNCHANGED <<lastRun, cursor, nodeMessages, taskRead>>
    /\ UNCHANGED <<doc, netns, nodes, ovsInstance, links, bridges, ids, world, phase>>

\* Stage 2, one task per entry of t.nodes: node.Start().
RunStartTask(i) ==
    /\ fault = "none"
    /\ pc = "run_start"
    /\ i \in DOMAIN tasks
    /\ tasks[i] = "todo"
    /\ IF nodes[i] = NilNode
       THEN Panic("Run: Start on a nil node")
       ELSE \E o \in Results :
            /\ Spend(o = "err")
            /\ tasks' = [tasks EXCEPT ![i] = o]
            /\ started' = IF o = "ok" THEN started \cup {nodes[i]} ELSE started
            /\ calls' = calls \cup {Call("nodeStart", nodes[i], 0, o)}
            /\ UNCHANGED <<doc, netns, nodes, ovsInstance, links, bridges, running, ids, pc,
                           op, arg, cursor, nodeMessages, taskRead, created, ifaces,
                           ret, lastRun, phase, hist, reload, fault>>

\* g.Wait after stage 2.
RunStartWait ==
    /\ fault = "none"
    /\ pc = "run_start"
    /\ AllDone
    /\ IF AnyErr
       THEN RunReturn(TRUE, nodeMessages,
                      IF \E i \in DOMAIN tasks : tasks[i] = "ok"
                      THEN "failStartPartial" ELSE "failStart", reload)
       ELSE /\ pc' = "run_links"
            /\ cursor' = <<1, 0>>
            /\ tasks' = <<>>
            /\ UNCHANGED <<ret, lastRun, nodeMessages, taskRead>>
    /\ UNCHANGED <<doc, netns, nodes, ovsInstance, links, bridges, running, ids, op, arg, world,
                   calls, phase, hist, reload, failures, fault>>

\* The calls of setupLink that can fail, in the order it makes them.
SetupLinkSteps(l) ==
    <<"GetNetns1", "GetNetns2", "CreateVethLink">>
    \o (IF l.Delay > 0 \/ l.Loss > 0 THEN <<"CreateNetem1", "CreateNetem2">> ELSE <<>>)
    \o (IF l.Rate > 0 THEN <<"CreateTbf1", "CreateTbf2">> ELSE <<>>)
    \o <<"AddInterface1", "AddInterface2">>

\* Whether the veth pair exists once setupLink returned, having failed at
\* step fp of its steps (0: at none).
LinkVethCreated(fp) == fp = 0 \/ fp > 3

\* How often handle h occurs in a sequence of handles.
HandleCount(handles, h) == Cardinality({k \in 1..Len(handles) : handles[k] = h})

\* netns once the handles of acquired have been opened and those of released
\* closed.
NetnsAfter(acquired, released) ==
    [h \in Netns |-> netns[h] + HandleCount(acquired, h) - HandleCount(released, h)]

\* Variant: setupLink closes its handles on its last line only.
LinkNetnsReleasedAtEnd(l, fp) == IF fp = 0 THEN <<l.Peer1.Node, l.Peer2.Node>> ELSE <<>>

\* The handles setupLink has acquired when it returns, having failed at step
\* fp (0: at none): GetNetns of peer 1 is step 1, of peer 2 step 2.
LinkNetnsAcquired(l, fp) ==
    (IF fp = 0 \/ fp > 1 THEN <<l.Peer1.Node>> ELSE <<>>)
    \o (IF fp = 0 \/ fp > 2 THEN <<l.Peer2.Node>> ELSE <<>>)

\* The handles the deferred Close calls of setupLink release at that return:
\* each defer is registered right after its GetNetns returned no error.
LinkNetnsReleased(l, fp) ==
    (IF fp = 0 \/ fp > 2 THEN <<l.Peer2.Node>> ELSE <<>>)
    \o (IF fp = 0 \/ fp > 1 THEN <<l.Peer1.Node>> ELSE <<>>)

\* Stage 3: the links one after the other on the request path, then the
\* spawn of the bridge tasks.
RunLink ==
    /\ fault = "none"
    /\ pc = "run_links"
    /\ IF cursor[1] > Len(links)
       THEN /\ tasks' = [b \in 1..Len(bridges) |-> "todo"]
            /\ pc' = "run_bridges"
            /\ cursor' = <<0, 0>>
            /\ UNCHANGED <<nodeMessages, taskRead, ifaces, netns, calls, ret, lastRun,
                           failures, fault>>
       ELSE LET idx == cursor[1]
                l == links[idx]
            IN IF l.Peer1.Node = NilNode \/ l.Peer2.Node = NilNode
               THEN /\ fault' = "setupLink: GetNetns on a nil node"
                    /\ UNCHANGED <<pc, tasks, cursor, nodeMessages, taskRead, ifaces, netns,
                                   calls, ret, lastRun, failures>>
               ELSE \E fp \in FailPoints(Len(SetupLinkSteps(l))) :
                    /\ Spend(fp # 0)
                    /\ ifaces' = IF LinkVethCreated(fp) THEN ifaces \cup {LinkIf(idx)} ELSE ifaces
                    /\ netns' = NetnsAfter(LinkNetnsAcquired(l, fp), LinkNetnsReleased(l, fp))
                    /\ calls' = calls \cup {Call("setupLink", "", idx, IF fp = 0 THEN "ok" ELSE "err")}
                    /\ fault' = fault
                    /\ IF fp # 0
                       THEN RunReturn(TRUE, nodeMessages, "failLink", reload)
                       ELSE /\ cursor' = <<idx + 1, 0>>
                            /\ UNCHANGED <<pc, ret, lastRun, tasks, nodeMessages, taskRead>>
    /\ UNCHANGED <<doc, nodes, ovsInstance, links, bridges, running, ids, op, arg,
                   created, started, phase, hist, reload>>

\* The calls of setupBridge that can fail, in the order it makes them: the
\* bridge, the host interface, then four calls per leg.
SetupBridgeSteps(br) ==
    <<"CreateBridge", "AttachToBridge">>
    \o [k \in 1..(4 * Len(br.Peers)) |->
          <<"GetNetns", "CreateVethLink", "SetInterfaceState", "AttachToBridge">>[((k - 1) % 4) + 1]]

\* The devices that exist once setupBridge returned, having failed at step
\* fp (0: at none): the bridge once CreateBridge passed, the veth of leg j
\* once its CreateVethLink (step 4j) passed.
BridgeDevices(br, fp) ==
    (IF fp = 0 \/ fp > 1 THEN {BridgeIf(br.Name)} ELSE {})
    \cup {LegIf(br.Name, j) : j \in {x \in 1..Len(br.Peers) : fp = 0 \/ fp > 4 * x}}

\* The legs whose AddInterface setupBridge reached.
LegsRecorded(br, fp) == {x \in 1..Len(br.Peers) : fp = 0 \/ fp > 4 * x + 2}

\* What setupBridge makes of an error of peer.Node.AddInterface: the call's
\* result is not looked at.
BridgeAddInterfaceError(ai) == FALSE

\* The legs of br whose GetNetns (step 4x - 1) returned a handle, setupBridge
\* having failed at step fp (0: at none).
LegsWithNetns(br, fp) == {x \in 1..Len(br.Peers) : fp = 0 \/ fp > 4 * x - 1}

\* The handles setupBridge has acquired when it returns: the root namespace,
\* then one per leg reached.
BridgeNetnsAcquired(br, fp) ==
    <<"root">> \o [x \in 1..Cardinality(LegsWithNetns(br, fp)) |-> br.Peers[x].Node]

\* The handles its deferred Close calls release at that return, last
\* registered first.
BridgeNetnsReleased(br, fp) ==
    [k \in 1..Cardinality(LegsWithNetns(br, fp)) |->
        br.Peers[Cardinality(LegsWithNetns(br, fp)) + 1 - k].Node] \o <<"root">>

\* Stage 4, one task per bridge: setupBridge.
RunBridgeTask(b) ==
    /\ fault = "none"
    /\ pc = "run_bridges"
    /\ b \in DOMAIN tasks
    /\ tasks[b] = "todo"
    /\ IF bridges[b].isNil
       THEN Panic("setupBridge: br.Name on a nil bridge")
       ELSE IF \E j \in 1..Len(bridges[b].Peers) : bridges[b].Peers[j].Node = NilNode
       THEN Panic("setupBridge: GetNetns on a nil node")
       ELSE LET br == bridges[b] IN
            \E fp \in FailPoints(Len(SetupBridgeSteps(br))) :
            \E ai \in [LegsRecorded(br, fp) -> Outcomes] :
            /\ failures + (IF fp # 0 THEN 1 ELSE 0)
                 + Cardinality({j \in DOMAIN ai : ai[j] = "err"}) <= MaxFailures
            /\ failures' = failures + (IF fp # 0 THEN 1 ELSE 0)
                             + Cardinality({j \in DOMAIN ai : ai[j] = "err"})
            /\ ifaces' = ifaces \cup BridgeDevices(br, fp)
            /\ netns' = NetnsAfter(BridgeNetnsAcquired(br, fp), BridgeNetnsReleased(br, fp))
            /\ calls' = calls \cup {Call("setupBridge", br.Name, 0, IF fp = 0 THEN "ok" ELSE "err")}
                              \cup {Call("AddInterface", br.Name, j, ai[j]) : j \in LegsRecorded(br, fp)}
            /\ tasks' = [tasks EXCEPT ![b] =
                            IF fp # 0 \/ \E j \in LegsRecorded(br, fp) : BridgeAddInterfaceError(ai[j])
                            THEN "err" ELSE "ok"]
            /\ UNCHANGED <<doc, nodes, ovsInstance, links, bridges, running, ids, pc,
                           op, arg, cursor, nodeMessages, taskRead, created, started,
                           ret, lastRun, phase, hist, reload, fault>>

\* g.Wait after stage 4, and the spawn of the LoadConfig tasks.
RunBridgeWait ==
    /\ fault = "none"
    /\ pc = "run_bridges"
    /\ AllDone
    /\ IF AnyErr
       THEN RunReturn(TRUE, nodeMessages, "failBridge", reload)
       ELSE /\ pc' = "run_config"
            /\ tasks' = [i \in 1..Len(nodes) |-> "todo"]
            /\ taskRead' = [i \in 1..Len(nodes) |-> <<>>]
            /\ UNCHANGED <<ret, lastRun, cursor, nodeMessages>>
    /\ UNCHANGED <<doc, netns, nodes, ovsInstance, links, bridges, running, ids, op, arg, world,
                   calls, phase, hist, reload, failures, fault>>

\* What node.LoadConfig returns: <<error?, number of messages>>.
LoadConfigOutcomes == {<<"ok", 0>>, <<"ok", 1>>, <<"err", 1>>}

\* RunResponse_NodeMessages{Name, Messages}.
NodeMessages(name, k) == <<name, k>>

\* Stage 5, first half of a task: node.LoadConfig, then the read of the
\* shared nodeMessages that its unguarded append starts with.
RunConfigCall(i) ==
    /\ fault = "none"
    /\ pc = "run_config"
    /\ i \in DOMAIN tasks
    /\ tasks[i] = "todo"
    /\ IF nodes[i] = NilNode
       THEN Panic("Run: LoadConfig on a nil node")
       ELSE \E lc \in LoadConfigOutcomes :
            /\ lc[1] \in Results
            /\ Spend(lc[1] = "err")
            /\ tasks' = [tasks EXCEPT ![i] = IF lc[1] = "ok" THEN "readOk" ELSE "readErr"]
            /\ taskRead' = [taskRead EXCEPT ![i] = Append(nodeMessages, NodeMessages(nodes[i], lc[2]))]
            /\ calls' = calls \cup {Call("LoadConfig", nodes[i], lc[2], lc[1])}
            /\ UNCHANGED <<doc, netns, nodes, ovsInstance, links, bridges, running, ids, pc,
                           op, arg, cursor, nodeMessages, world, ret, lastRun, phase, hist,
                           reload, fault>>

\* Stage 5, second half: the write of the appended slice back to nodeMessages.
RunConfigAppend(i) ==
    /\ fault = "none"
    /\ pc = "run_config"
    /\ i \in DOMAIN tasks
    /\ tasks[i] \in {"readOk", "readErr"}
    /\ nodeMessages' = taskRead[i]
    /\ tasks' = [tasks EXCEPT ![i] = IF tasks[i] = "readOk" THEN "ok" ELSE "err"]
    /\ UNCHANGED <<doc, netns, nodes, ovsInstance, links, bridges, running, ids, pc, op, arg,
                   cursor, taskRead, world, calls, ret, lastRun, phase, hist, reload,
                   failures, fault>>

\* g.Wait after stage 5; t.running = true.
RunConfigWait ==
    /\ fault = "none"
    /\ pc = "run_config"
    /\ AllDone
    /\ IF AnyErr
       THEN /\ RunReturn(TRUE, nodeMessages, "failConfig", reload)
            /\ UNCHANGED running
       ELSE /\ running' = TRUE
            /\ RunReturn(FALSE, nodeMessages, "ok", reload)
    /\ UNCHANGED <<doc, netns, nodes, ovsInstance, links, bridges, ids, op, arg, world, calls,
                   phase, hist, reload, failures, fault>>

\* The caller invokes Run.  After a Load that failed the caller's one
\* next operation is Close.
Run ==
    /\ fault = "none"
    /\ pc = "idle"
    /\ phase \in {"loaded", "closed"}
    /\ op' = "Run"
    /\ arg' = ""
    /\ reload' = NoReload
    /\ running' = running
    /\ RunEntry({}, NoReload, running)

\* ================================================================ Close
CloseReturn(rl) ==
    /\ phase' = "closed"
    /\ lastRun' = IF lastRun = "failStartPartial" THEN "closedAfterPartialStart" ELSE "none"
    /\ ResetLocals
    /\ IF rl.active
       THEN pc' = "reload_load" /\ ret' = ret
       ELSE pc' = "idle" /\ ret' = [op |-> "Close", err |-> FALSE, msgs |-> <<>>]

\* hist after a teardown call: a call that fails takes the history off the
\* round trips whose teardown went through.
TeardownHist(failed) == IF failed THEN "other" ELSE hist

\* Variant: Close spawns a task for the started nodes only.
StartedTargets == {i \in 1..Len(nodes) : nodes[i] \in started}

\* The entries of t.nodes Close spawns a node.Close() task for.
CloseTargets == 1..Len(nodes)

\* Close up to the spawn of the node Close tasks.
CloseEntry(base, rl) ==
    /\ hist' = IF ~rl.active /\ hist = "R" THEN "C" ELSE "other"
    /\ calls' = base
    /\ tasks' = [i \in CloseTargets |-> "todo"]
    /\ pc' = "close_nodes"
    /\ ret' = NoRet
    /\ UNCHANGED <<doc, netns, nodes, ovsInstance, links, bridges, ids, cursor, nodeMessages,
                   taskRead, world, lastRun, phase, failures, fault>>

\* One node.Close() task.  A closed container takes its namespace, and the
\* veth pairs with an end in it, away.
CloseNodeTask(i) ==
    /\ fault = "none"
    /\ pc = "close_nodes"
    /\ i \in DOMAIN tasks
    /\ tasks[i] = "todo"
    /\ IF nodes[i] = NilNode
       THEN Panic("Close: Close on a nil node")
       ELSE \E o \in Results :
            /\ Spend(o = "err")
            /\ tasks' = [tasks EXCEPT ![i] = o]
            /\ calls' = calls \cup {Call("nodeClose", nodes[i], 0, o)}
            /\ created' = created \ {nodes[i]}
            /\ started' = started \ {nodes[i]}
            /\ ifaces' = IF o = "ok" THEN ifaces \ HeldBy(nodes[i]) ELSE ifaces
            /\ hist' = TeardownHist(o = "err")
            /\ UNCHANGED <<doc, netns, nodes, ovsInstance, links, bridges, running, ids, pc,
                           op, arg, cursor, nodeMessages, taskRead, ret, lastRun, phase,
                           reload, fault>>

\* rootNs := link.GetRootNetns(); defer rootNs.Close().
CloseNetnsAcquired == <<"root">>
CloseNetnsReleased == <<"root">>

\* g.Wait in Close: the error is logged, and Close goes on to the bridges.
CloseNodesWait ==
    /\ fault = "none"
    /\ pc = "close_nodes"
    /\ AllDone
    /\ pc' = "close_bridges"
    /\ netns' = NetnsAfter(CloseNetnsAcquired, <<>>)
    /\ cursor' = <<1, 0>>
    /\ tasks' = <<>>
    /\ UNCHANGED <<doc, nodes, ovsInstance, links, bridges, running, ids, op, arg,
                   nodeMessages, taskRead, world, calls, ret, lastRun, phase, hist,
                   reload, failures, fault>>

\* link.DeleteLink: it removes the device when it succeeds, and it cannot
\* succeed on a device that is not there.
DeleteLinkOutcomes(dev) == IF dev \in ifaces THEN Results ELSE {"err"}

\* Variant of the loops: Close goes from a bridge device to the next bridge,
\* leaving the legs.
SkipLegs(b, j) == <<b + 1, 0>>

\* Where the loops over t.bridges and br.Peers go after leg j of bridge b
\* (j = 0: after the bridge device).
NextDeletion(b, j) ==
    IF j < Len(bridges[b].Peers) THEN <<b, j + 1>> ELSE <<b + 1, 0>>

\* DeleteLink(br.Name): the bridge device of the bridge under the cursor.
CloseDeleteBridge ==
    /\ fault = "none"
    /\ pc = "close_bridges"
    /\ cursor[1] <= Len(bridges)
    /\ cursor[2] = 0
    /\ LET b == cursor[1] IN
       IF bridges[b].isNil
       THEN Panic("Close: br.Name on a nil bridge")
       ELSE \E o \in DeleteLinkOutcomes(BridgeIf(bridges[b].Name)) :
            /\ Spend(o = "err" /\ BridgeIf(bridges[b].Name) \in ifaces)
            /\ hist' = TeardownHist(o = "err" /\ BridgeIf(bridges[b].Name) \in ifaces)
            /\ ifaces' = IF o = "ok" THEN ifaces \ {BridgeIf(bridges[b].Name)} ELSE ifaces
            /\ calls' = calls \cup {Call("deleteBridge", bridges[b].Name, 0, o)}
            /\ cursor' = NextDeletion(b, 0)
            /\ UNCHANGED <<doc, netns, nodes, ovsInstance, links, bridges, running, ids, pc,
                           op, arg, tasks, nodeMessages, taskRead, created, started, ret,
                           lastRun, phase, reload, fault>>

\* DeleteLink(ifName): the root-side leg under the cursor.
CloseDeleteLeg ==
    /\ fault = "none"
    /\ pc = "close_bridges"
    /\ cursor[1] <= Len(bridges)
    /\ cursor[2] > 0
    /\ LET b == cursor[1]
           j == cursor[2]
       IN
       IF bridges[b].Peers[j].Node = NilNode
       THEN Panic("Close: GetShortName on a nil node")
       ELSE \E o \in DeleteLinkOutcomes(LegIf(bridges[b].Name, j)) :
            /\ Spend(o = "err" /\ LegIf(bridges[b].Name, j) \in ifaces)
            /\ hist' = TeardownHist(o = "err" /\ LegIf(bridges[b].Name, j) \in ifaces)
            /\ ifaces' = IF o = "ok" THEN ifaces \ {LegIf(bridges[b].Name, j)} ELSE ifaces
            /\ calls' = calls \cup {Call("deleteLeg", bridges[b].Name, j, o)}
            /\ cursor' = NextDeletion(b, j)
            /\ UNCHANGED <<doc, netns, nodes, ovsInstance, links, bridges, running, ids, pc,
                           op, arg, tasks, nodeMessages, taskRead, created, started, ret,
                           lastRun, phase, reload, fault>>

\* t.running as Close leaves it: Close does not assign it.
RunningAfterClose == running

\* Variant: Close leaves t.nodes as it found it.
KeptNodes == nodes

\* The collections as Close leaves them.
ClosedNodes == <<>>
ClosedLinks == <<>>
ClosedBridges == <<>>

\* The end of Close: the collections emptied, the Identifier Generator
\* closed, CloseOvsInstance (its error logged), t.ovsInstance = nil.
CloseFinish ==
    /\ fault = "none"
    /\ pc = "close_bridges"
    /\ cursor[1] > Len(bridges)
    /\ \E o \in Results :
         /\ Spend(o = "err")
         /\ nodes' = ClosedNodes
         /\ links' = ClosedLinks
         /\ bridges' = ClosedBridges
         /\ ids' = {}
         /\ ovsInstance' = Nil
         /\ running' = RunningAfterClose
         /\ calls' = calls \cup {Call("IdGenerator.Close", "", 0, "ok"),
                                 Call("CloseOvsInstance", "", 0, o)}
         /\ hist' = TeardownHist(o = "err")
    /\ netns' = NetnsAfter(<<>>, CloseNetnsReleased)
    /\ CloseReturn(reload)
    /\ UNCHANGED <<doc, op, arg, world, reload, fault>>

\* The caller invokes Close: from any state.
Close ==
    /\ fault = "none"
    /\ pc = "idle"
    /\ op' = "Close"
    /\ arg' = ""
    /\ reload' = NoReload
    /\ running' = running
    /\ CloseEntry({}, NoReload)

\* =============================================================== Reload
\* The caller invokes Reload: it begins with Close.
Reload ==
    /\ fault = "none"
    /\ pc = "idle"
    /\ op' = "Reload"
    /\ arg' = ""
    /\ reload' = [active |-> TRUE, wasRunning |-> running, ranRun |-> FALSE]
    /\ running' = running
    /\ CloseEntry({}, reload')

\* Reload, after its Close returned nil: Load.
ReloadLoad ==
    /\ fault = "none"
    /\ pc = "reload_load"
    /\ UNCHANGED <<op, arg, reload, running>>
    /\ LoadEntry(calls, reload)

\* Variant of the test: Reload runs the topology whether or not it ran before.
ReloadAlwaysRuns == TRUE

\* The test Reload makes after its Load.
ReloadShouldRun == running

\* Reload, after its Load returned nil: Run again if t.running.
ReloadRun ==
    /\ fault = "none"
    /\ pc = "reload_run"
    /\ op' = op
    /\ arg' = arg
    /\ IF ReloadShouldRun
       THEN /\ running' = FALSE
            /\ reload' = [reload EXCEPT !.ranRun = TRUE]
            /\ RunEntry(calls, reload', FALSE)
       ELSE /\ pc' = "idle"
            /\ ret' = [op |-> "Reload", err |-> FALSE, msgs |-> <<>>]
            /\ UNCHANGED <<doc, netns, nodes, ovsInstance, links, bridges, running, ids, tasks,
                           cursor, nodeMessages, taskRead, world, calls, lastRun, phase,
                           hist, reload, failures, fault>>

\* ========================================================== Start / Stop
\* The names a caller may pass: those of the documents and one none of them holds.
CallerNames == UNION {t.Nodes : t \in NetemTopology} \cup {"zz"}

\* The guard at the head of Start and of Stop.
TopologyNotRunning == ~running

\* Start(nodeName): startNode is node.Start, then node.LoadConfig.
Start(nodeName) ==
    /\ fault = "none"
    /\ pc = "idle"
    /\ phase \in {"loaded", "closed"}
    /\ op' = "Start"
    /\ arg' = nodeName
    /\ reload' = NoReload
    /\ IF TopologyNotRunning
       THEN /\ ret' = [op |-> "Start", err |-> FALSE, msgs |-> <<>>]
            /\ calls' = {}
            /\ UNCHANGED <<started, failures, fault>>
       ELSE IF GetNodePanics(nodeName)
       THEN /\ fault' = "GetNode: GetName on a nil node"
            /\ UNCHANGED <<ret, calls, started, failures>>
       ELSE IF GetNode(nodeName) = NilNode
       THEN /\ ret' = [op |-> "Start", err |-> TRUE, msgs |-> <<>>]
            /\ calls' = {}
            /\ UNCHANGED <<started, failures, fault>>
       ELSE \E s \in Results, lc \in LoadConfigOutcomes :
            /\ fault' = fault
            /\ IF s = "err"
               THEN /\ lc = <<"ok", 0>>
                    /\ Spend(TRUE)
                    /\ ret' = [op |-> "Start", err |-> TRUE, msgs |-> <<>>]
                    /\ calls' = {Call("nodeStart", GetNode(nodeName), 0, "err")}
                    /\ UNCHANGED started
               ELSE /\ lc[1] \in Results
                    /\ Spend(lc[1] = "err")
                    /\ started' = started \cup {GetNode(nodeName)}
                    /\ calls' = {Call("nodeStart", GetNode(nodeName), 0, "ok"),
                                 Call("LoadConfig", GetNode(nodeName), lc[2], lc[1])}
                    /\ ret' = [op |-> "Start", err |-> lc[1] = "err",
                               msgs |-> IF lc[2] = 0 THEN <<>>
                                        ELSE <<NodeMessages(GetNode(nodeName), lc[2])>>]
    /\ hist' = "other"
    /\ UNCHANGED <<doc, netns, nodes, ovsInstance, links, bridges, running, ids, pc, tasks,
                   cursor, nodeMessages, taskRead, created, ifaces, lastRun, phase>>

\* Stop(nodeName): stopNode is node.Stop.
Stop(nodeName) ==
    /\ fault = "none"
    /\ pc = "idle"
    /\ phase \in {"loaded", "closed"}
    /\ op' = "Stop"
    /\ arg' = nodeName
    /\ reload' = NoReload
    /\ IF TopologyNotRunning
       THEN /\ ret' = [op |-> "Stop", err |-> FALSE, msgs |-> <<>>]
            /\ calls' = {}
            /\ UNCHANGED <<started, failures, fault>>
       ELSE IF GetNodePanics(nodeName)
       THEN /\ fault' = "GetNode: GetName on a nil node"
            /\ UNCHANGED <<ret, calls, started, failures>>
       ELSE IF GetNode(nodeName) = NilNode
       THEN /\ ret' = [op |-> "Stop", err |-> TRUE, msgs |-> <<>>]
            /\ calls' = {}
            /\ UNCHANGED <<started, failures, fault>>
       ELSE \E s \in Results :
            /\ fault' = fault
            /\ Spend(s = "err")
            /\ started' = IF s = "ok" THEN started \ {GetNode(nodeName)} ELSE started
            /\ calls' = {Call("nodeStop", GetNode(nodeName), 0, s)}
            /\ ret' = [op |-> "Stop", err |-> s = "err", msgs |-> <<>>]
    /\ hist' = "other"
    /\ UNCHANGED <<doc, netns, nodes, ovsInstance, links, bridges, running, ids, pc, tasks,
                   cursor, nodeMessages, taskRead, created, ifaces, lastRun, phase>>

\* ================================================================= Next
Next ==
    \/ Load
    \/ \E n \in doc.Nodes : LoadNodeTask(n)
    \/ LoadWait
    \/ Run
    \/ \E i \in 1..Len(nodes) : RunStartTask(i)
    \/ RunStartWait
    \/ RunLink
    \/ \E b \in 1..Len(bridges) : RunBridgeTask(b)
    \/ RunBridgeWait
    \/ \E i \in 1..Len(nodes) : RunConfigCall(i)
    \/ \E i \in 1..Len(nodes) : RunConfigAppend(i)
    \/ RunConfigWait
    \/ Close
    \/ \E i \in 1..Len(nodes) : CloseNodeTask(i)
    \/ CloseNodesWait
    \/ CloseDeleteBridge
    \/ CloseDeleteLeg
    \/ CloseFinish
    \/ Reload
    \/ ReloadLoad
    \/ ReloadRun
    \/ \E name \in CallerNames : Start(name)
    \/ \E name \in CallerNames : Stop(name)

Spec == Init /\ [][Next]_vars

\* =============================================================== claims
\* The stage of Run a call belongs to (0: not a call of Run's stages).
RunStage(kind) ==
    CASE kind = "ovsStart" -> 1
      [] kind = "nodeStart" -> 2
      [] kind = "setupLink" -> 3
      [] kind \in {"setupBridge", "AddInterface"} -> 4
      [] kind = "LoadConfig" -> 5
      [] OTHER -> 0

\* The stages of the Run in progress in which a stage operation has failed.
RunFailedStages ==
    {RunStage(c[1]) :
        c \in {x \in calls : /\ x[4] = "err"
                             /\ x[1] \in {"ovsStart", "nodeStart", "setupLink",
                                          "setupBridge", "LoadConfig"}}}

\* Close has just returned: to the caller, or into the Reload that called it.
CloseReturned == (pc = "idle" /\ op = "Close") \/ pc = "reload_load"

\* C1: in a Run on a non-running manager, once an operation of a stage has
\* failed no operation of a later stage is invoked, and Run then returns an
\* error with the running flag false.
C1_RunAllOrNothing ==
    (op = "Run" /\ calls # {}) =>
        /\ \A f \in RunFailedStages : \A c \in calls : RunStage(c[1]) <= f
        /\ (pc = "idle" /\ RunFailedStages # {}) => (ret.err /\ ~running)

\* C2: a Run invoked with the running flag set returns empty messages and no
\* error, issues no call and changes nothing of the manager or of the world;
\* a Start or a Stop invoked with the flag clear does the same, for every name.
C2_StateMachineSafety ==
    [][ /\ (pc = "idle" /\ running /\ op' = "Run") =>
              /\ pc' = "idle"
              /\ ret' = [op |-> "Run", err |-> FALSE, msgs |-> <<>>]
              /\ calls' = {}
              /\ manager' = manager
              /\ world' = world
              /\ fault' = "none"
        /\ (pc = "idle" /\ ~running /\ op' \in {"Start", "Stop"}) =>
              /\ pc' = "idle"
              /\ ret' = [op |-> op', err |-> FALSE, msgs |-> <<>>]
              /\ calls' = {}
              /\ manager' = manager
              /\ world' = world
              /\ fault' = "none"
      ]_vars

\* A Run returned as a no-op on a loaded, running manager.
C2_Witness ==
    /\ pc = "idle"
    /\ op = "Run"
    /\ running
    /\ nodes # <<>>
    /\ calls = {}
    /\ ret = [op |-> "Run", err |-> FALSE, msgs |-> <<>>]

\* C3: between operations, the running flag is set iff the last Run went
\* through all its stages and no Close has returned since; after a Close the
\* flag is clear.
C3_RunningIffLastRunOk ==
    (pc = "idle") =>
        /\ running <=> (lastRun = "ok")
        /\ (op = "Close") => ~running

\* C4: when Reload returns, it has closed and loaded, in that order; it has
\* run the topology exactly when the flag was set at its entry and its Load
\* went through; if it ran and the Run succeeded the flag is set and the
\* messages returned are messages of that Run's LoadConfig calls; if the flag
\* was clear at entry it is clear, no node was started and no message is returned.
C4_ReloadPreservesRunning ==
    (pc = "idle" /\ op = "Reload") =>
        /\ \E o \in Outcomes : Call("CloseOvsInstance", "", 0, o) \in calls
        /\ \E v \in Outcomes : Call("CheckTopology", "", 0, v) \in calls
        /\ (phase = "loaded") => (ovsInstance # Nil /\ Len(nodes) = Cardinality(doc.Nodes))
        /\ reload.ranRun <=> (reload.wasRunning /\ phase = "loaded")
        /\ (reload.ranRun /\ ~ret.err) =>
              /\ running
              /\ \A k \in 1..Len(ret.msgs) :
                    \E o \in Outcomes :
                       Call("LoadConfig", ret.msgs[k][1], ret.msgs[k][2], o) \in calls
        /\ ~reload.wasRunning =>
              /\ ~running
              /\ ret.msgs = <<>>
              /\ ~\E c \in calls : c[1] \in {"ovsStart", "nodeStart", "LoadConfig"}

\* Reload returned on a manager that was running: it ran again, with messages.
C4_Witness ==
    /\ pc = "idle"
    /\ op = "Reload"
    /\ reload.wasRunning
    /\ reload.ranRun
    /\ ~ret.err
    /\ running
    /\ ret.msgs # <<>>

\* C5: a Close, from whatever state it is invoked in, does not fault, and it
\* returns nil with the collections emptied, the Identifier Generator closed
\* and the OVS close made.
C5_CloseAlwaysCompletes ==
    /\ (op = "Close") => (fault = "none")
    /\ (pc = "idle" /\ op = "Close") =>
          /\ ~ret.err
          /\ nodes = <<>> /\ links = <<>> /\ bridges = <<>>
          /\ Call("IdGenerator.Close", "", 0, "ok") \in calls
          /\ \E o \in Outcomes : Call("CloseOvsInstance", "", 0, o) \in calls

\* C6: the last step of a Close invoked on a manager a Close has emptied
\* (nothing loaded since) returns with no call issued and with the manager and
\* the world as they were.
C6_SecondCloseNoop ==
    [][ (op = "Close" /\ phase = "closed" /\ pc = "close_bridges" /\ pc' = "idle") =>
           /\ calls' = {}
           /\ manager' = manager
           /\ world' = world
      ]_vars

\* C7: when Close has returned the node, link and bridge collections are
\* empty, GetNode finds no node under any name, and t.ovsInstance is nil.
C7_NoRuntimeGraphAfterClose ==
    CloseReturned =>
        /\ nodes = <<>>
        /\ links = <<>>
        /\ bridges = <<>>
        /\ \A name \in CallerNames : GetNode(name) = NilNode
        /\ ovsInstance = Nil

\* Close returned having closed nodes and deleted the device of a bridge a
\* Run had built.
C7_Witness ==
    /\ pc = "idle"
    /\ op = "Close"
    /\ \E c \in calls : c[1] = "nodeClose"
    /\ \E c \in calls : c[1] = "deleteBridge" /\ c[4] = "ok"
    /\ nodes = <<>>

\* C8: when Close has returned, no node a Load created is left without its
\* Close having been invoked, and the OVS close has been made.
C8_CreatedNodesClosed ==
    CloseReturned =>
        /\ created = {}
        /\ \E o \in Outcomes : Call("CloseOvsInstance", "", 0, o) \in calls

\* Close returned after a Load that had created one node of the document and
\* failed on another: the one was closed, the other never existed.
C8_Witness ==
    /\ pc = "idle"
    /\ op = "Close"
    /\ created = {}
    /\ \E n \in doc.Nodes : \E o \in Outcomes : Call("nodeClose", n, 0, o) \in calls
    /\ \E m \in doc.Nodes : \A o \in Outcomes : Call("nodeClose", m, 0, o) \notin calls

\* C9: a Run that returns because a node failed to start has called Start on
\* every node; and when Close has returned, no started node is left without
\* its Close having been invoked, and the OVS close has been made.
C9_PartialFailureCleanup ==
    /\ (pc = "idle" /\ op = "Run" /\ lastRun \in {"failStart", "failStartPartial"}) =>
          \A i \in 1..Len(nodes) :
             \E o \in Outcomes : Call("nodeStart", nodes[i], 0, o) \in calls
    /\ CloseReturned =>
          /\ started = {}
          /\ \E o \in Outcomes : Call("CloseOvsInstance", "", 0, o) \in calls

\* Close returned after a Run in which one node started and another failed to.
C9_Witness ==
    /\ pc = "idle"
    /\ op = "Close"
    /\ lastRun = "closedAfterPartialStart"
    /\ started = {}
    /\ \E c \in calls : c[1] = "nodeClose"

C11_StartStopFrame ==
    [][ (pc = "idle" /\ running /\ op' \in {"Start", "Stop"}) =>
           /\ nodes' = nodes /\ links' = links /\ bridges' = bridges
           /\ running' = running
           /\ ifaces' = ifaces /\ created' = created
           /\ started' \ {arg'} = started \ {arg'}
           /\ \A c \in calls' :
                 /\ c[2] = arg'
                 /\ c[1] \in (IF op' = "Start" THEN {"nodeStart", "LoadConfig"} ELSE {"nodeStop"})
           /\ (\A i \in 1..Len(nodes) : nodes[i] # arg') =>
                 (fault' = "none" => (ret'.err /\ calls' = {}))
           /\ ((\E i \in 1..Len(nodes) : nodes[i] = arg') /\ fault' = "none") =>
                 IF op' = "Start"
                 THEN /\ \E o \in Outcomes : Call("nodeStart", arg', 0, o) \in calls'
                      /\ (\E c \in calls' : c[1] = "LoadConfig")
                            <=> (Call("nodeStart", arg', 0, "ok") \in calls')
                 ELSE \E o \in Outcomes : calls' = {Call("nodeStop", arg', 0, o)}
      ]_vars

\* Start returned on a running manager of two nodes: the named node was
\* started and its config loaded.
C11_Witness ==
    /\ pc = "idle"
    /\ op = "Start"
    /\ running
    /\ Len(nodes) = 2
    /\ Call("nodeStart", arg, 0, "ok") \in calls
    /\ \E c \in calls : c[1] = "LoadConfig" /\ c[2] = arg

\* What has returned, in the state a stage operation of Run begins in.
OvsStartReturned == \E o \in Outcomes : Call("ovsStart", "", 0, o) \in calls
NodeStartsReturned ==
    \A i \in 1..Len(nodes) : \E o \in Outcomes : Call("nodeStart", nodes[i], 0, o) \in calls
LinkBuildsReturned(upTo) ==
    \A idx \in 1..upTo : \E o \in Outcomes : Call("setupLink", "", idx, o) \in calls
BridgeBuildsReturned ==
    \A b \in 1..Len(bridges) :
       \E o \in Outcomes : Call("setupBridge", bridges[b].Name, 0, o) \in calls

NodeClosesReturned ==
    \A i \in 1..Len(nodes) : \E o \in Outcomes : Call("nodeClose", nodes[i], 0, o) \in calls

\* C14: in a Close, whatever the order the node Close tasks take their steps
\* in, a bridge device or a leg is deleted only when every node Close has
\* returned; a leg only when the deletion of its bridge device has been
\* attempted; and the OVS instance is closed only when every node Close has
\* returned and every bridge device and every leg has had its deletion attempted.
C14_CloseOrder ==
    [][ (op' \in {"Close", "Reload"}) =>
          \A c \in calls' \ calls :
             /\ (c[1] \in {"deleteBridge", "deleteLeg"}) => NodeClosesReturned
             /\ (c[1] = "deleteLeg") =>
                   \E o \in Outcomes : Call("deleteBridge", c[2], 0, o) \in calls
             /\ (c[1] = "CloseOvsInstance") =>
                   /\ NodeClosesReturned
                   /\ \A b \in 1..Len(bridges) :
                         /\ \E o \in Outcomes : Call("deleteBridge", bridges[b].Name, 0, o) \in calls
                         /\ \A j \in 1..Len(bridges[b].Peers) :
                               \E o \in Outcomes : Call("deleteLeg", bridges[b].Name, j, o) \in calls
      ]_vars

\* Close returned having closed nodes, then deleted a bridge and its leg,
\* then closed the OVS instance.
C14_Witness ==
    /\ pc = "idle"
    /\ op = "Close"
    /\ \E c \in calls : c[1] = "nodeClose"
    /\ \E c \in calls : c[1] = "deleteLeg"
    /\ \E c \in calls : c[1] = "CloseOvsInstance"

\* C15: once the OVS start of a Run has failed, Run has returned an error,
\* no node Start has been invoked, and the running flag is clear.
C15_OvsStartErrorPropagated ==
    (op = "Run" /\ Call("ovsStart", "", 0, "err") \in calls) =>
        /\ pc = "idle"
        /\ ret.err
        /\ ~running
        /\ ~\E c \in calls : c[1] = "nodeStart"

\* C16: when a Run that went through its stages returns without error, the
\* messages it returns hold one entry per node of t.nodes, no more, each with
\* the node's name and what its LoadConfig returned.
C16_OneMessagePerNode ==
    (pc = "idle" /\ op = "Run" /\ ~ret.err /\ calls # {}) =>
        /\ Len(ret.msgs) = Len(nodes)
        /\ \A i \in 1..Len(nodes) :
              \E k \in 1..Len(ret.msgs) :
                 /\ ret.msgs[k][1] = nodes[i]
                 /\ Call("LoadConfig", nodes[i], ret.msgs[k][2], "ok") \in calls

\* C17: while the manager holds what a Load that returned nil built, t.nodes
\* has one entry per node name of the document, no more, and every endpoint
\* of a link and every leg of a bridge holds a node, not nil.
C17_NodeListComplete ==
    (phase = "loaded") =>
        /\ Len(nodes) = Cardinality(doc.Nodes)
        /\ \A n \in doc.Nodes : \E i \in 1..Len(nodes) : nodes[i] = n
        /\ \A idx \in 1..Len(links) :
              /\ links[idx].Peer1.Node = doc.Links[idx].Peer1[1]
              /\ links[idx].Peer2.Node = doc.Links[idx].Peer2[1]
              /\ links[idx].Peer1.Node # NilNode
              /\ links[idx].Peer2.Node # NilNode
        /\ \A b \in 1..Len(bridges) :
              /\ ~bridges[b].isNil
              /\ \A j \in 1..Len(bridges[b].Peers) : bridges[b].Peers[j].Node # NilNode

\* Load returned nil on the document of two nodes, a link and a bridge.
C17_Witness ==
    /\ pc = "idle"
    /\ op = "Load"
    /\ ret = [op |-> "Load", err |-> FALSE, msgs |-> <<>>]
    /\ Len(nodes) = 2
    /\ Len(links) = 1
    /\ Len(bridges) = 1

\* C18: when a Load has returned an error, t.nodes holds only nodes whose
\* creation succeeded and t.bridges holds no nil entry; and the Close that
\* follows does not fault.
C18_FailedLoadTornDown ==
    /\ (phase = "loadFailed" /\ pc = "idle") =>
          /\ \A i \in 1..Len(nodes) : nodes[i] # NilNode /\ nodes[i] \in created
          /\ \A b \in 1..Len(bridges) : ~bridges[b].isNil
    /\ (phase = "loadFailed" /\ op \in {"Close", "Reload"}) => (fault = "none")

\* C19: when setupLink, setupBridge or Close has returned, normally or with
\* an error, every namespace handle it opened has been closed once: no handle
\* is open but the root handle of a Close that is among its bridges.
C19_NetnsReleased ==
    (fault = "none") =>
        \A h \in Netns :
           netns[h] = IF h = "root" /\ pc = "close_bridges" THEN 1 ELSE 0

\* A Run returned the error of a link build, and no handle is open.
C19_Witness ==
    /\ pc = "idle"
    /\ op = "Run"
    /\ lastRun = "failLink"
    /\ Call("setupLink", "", 1, "err") \in calls
    /\ \A h \in Netns : netns[h] = 0

\* C20: in a Run, once an AddInterface of a bridge leg has returned an error
\* no LoadConfig is invoked, and the Run returns an error with the running
\* flag false.
C20_BridgeAddInterfaceFails ==
    (op = "Run" /\ \E c \in calls : c[1] = "AddInterface" /\ c[4] = "err") =>
        /\ ~\E c \in calls : c[1] = "LoadConfig"
        /\ (pc = "idle") => (ret.err /\ ~running)


\* ======================================================= interface names
\* The names the manager gives kernel interfaces, computed as the code formats
\* them, over short ids and interface indices drawn from small sets.
\* options.NETEM_ID.
NETEM_ID == "ntm"

\* The largest interface index of a link endpoint or bridge leg.
MaxIfIndex == 2

\* Project ids; short ids the Identifier Generator has handed to nodes and to
\* bridges (pairwise distinct: an entity is known by its short id).
PrjIDs == {"p"}
NodeShortNames == {"r1", "1", "2"}
BridgeShortNames == {"b0"}

\* setupLink: fmt.Sprintf("%s%s.%d", t.prjID, GetShortName(), IfIndex).
LinkLegName(prjID, shortName, ifIndex) ==
    prjID \o shortName \o "." \o ToString(ifIndex)

\* setupBridge, root side: fmt.Sprintf("%s%s%s.%d", NETEM_ID, t.prjID, GetShortName(), IfIndex).
BridgeRootLegName(prjID, shortName, ifIndex) ==
    NETEM_ID \o prjID \o shortName \o "." \o ToString(ifIndex)

\* setupBridge, peer side: fmt.Sprintf("%s%s%d.%s", NETEM_ID, t.prjID, IfIndex, GetShortName()).
BridgePeerLegName(prjID, shortName, ifIndex) ==
    NETEM_ID \o prjID \o ToString(ifIndex) \o "." \o shortName

\* Load: options.NETEM_ID + t.prjID + "." + shortName.
BridgeDeviceName(prjID, shortName) ==
    NETEM_ID \o prjID \o "." \o shortName

\* In this specification doc holds the project id and ifaces the interfaces
\* named so far, each <<kind, short id, ifIndex, name>>; nothing else moves.
InitNames ==
    /\ doc \in [prjID : PrjIDs]
    /\ nodes = <<>>
    /\ ovsInstance = Nil
    /\ links = <<>>
    /\ bridges = <<>>
    /\ running = FALSE
    /\ ids = {}
    /\ pc = "idle"
    /\ op = "none"
    /\ arg = ""
    /\ tasks = <<>>
    /\ cursor = <<0, 0>>
    /\ nodeMessages = <<>>
    /\ taskRead = <<>>
    /\ created = {}
    /\ started = {}
    /\ ifaces = {}
    /\ netns = NoHandles
    /\ calls = {}
    /\ ret = NoRet
    /\ lastRun = "none"
    /\ phase = "new"
    /\ hist = "new"
    /\ reload = NoReload
    /\ failures = 0
    /\ fault = "none"

NamesFrame ==
    UNCHANGED <<doc, netns, nodes, ovsInstance, links, bridges, running, ids, pc, op, arg,
                tasks, cursor, nodeMessages, taskRead, created, started, calls,
                ret, lastRun, phase, hist, reload, failures, fault>>

\* A valid topology uses a (node, ifIndex) for one link endpoint or one
\* bridge leg at most.
EndpointFree(shortName, ifIndex) ==
    ~\E e \in ifaces : e[1] \in {"link", "root"} /\ e[2] = shortName /\ e[3] = ifIndex

\* setupLink names the leg of a link on interface ifIndex of a node.
NameLinkLeg(shortName, ifIndex) ==
    /\ EndpointFree(shortName, ifIndex)
    /\ ifaces' = ifaces \cup
          {<<"link", shortName, ifIndex, LinkLegName(doc.prjID, shortName, ifIndex)>>}
    /\ NamesFrame

\* setupBridge names the two ends of a bridge leg on interface ifIndex of a node.
NameBridgeLeg(shortName, ifIndex) ==
    /\ EndpointFree(shortName, ifIndex)
    /\ ifaces' = ifaces \cup
          {<<"root", shortName, ifIndex, BridgeRootLegName(doc.prjID, shortName, ifIndex)>>,
           <<"peer", shortName, ifIndex, BridgePeerLegName(doc.prjID, shortName, ifIndex)>>}
    /\ NamesFrame

\* Load names the device of a bridge.
NameBridgeDevice(shortName) ==
    /\ ~\E e \in ifaces : e[1] = "bridge" /\ e[2] = shortName
    /\ ifaces' = ifaces \cup
          {<<"bridge", shortName, 0, BridgeDeviceName(doc.prjID, shortName)>>}
    /\ NamesFrame

NextNames ==
    \/ \E shortName \in NodeShortNames, ifIndex \in 0..MaxIfIndex : NameLinkLeg(shortName, ifIndex)
    \/ \E shortName \in NodeShortNames, ifIndex \in 0..MaxIfIndex : NameBridgeLeg(shortName, ifIndex)
    \/ \E shortName \in BridgeShortNames : NameBridgeDevice(shortName)

SpecNames == InitNames /\ [][NextNames]_vars

\* C12: the names of the interfaces of one project are pairwise distinct:
\* two interfaces that bear the same name are the same interface.
C12_NamesDistinct ==
    \A e1 \in ifaces : \A e2 \in ifaces : (e1[4] = e2[4]) => (e1 = e2)

====
